---- MODULE Spec2Model ----
(***************************************************************************)
(* The hmhash proof-of-work engine of consensus/ethash/algorithm.go: the   *)
(* construction variants, Close/StopRemoteSealer, Threads/SetThreads and   *)
(* Hashrate, run by concurrent callers against the process-wide shared     *)
(* engine and the engines constructed later.  The remote sealer's loop is  *)
(* not part of algorithm.go; it is modelled from its interface contract.   *)
(***************************************************************************)
EXTENDS Integers, Sequences, FiniteSets, TLC

\* ------------------------------------------------------------------ bounds
NumEngines == 1     \* engines constructed besides sharedHmhash
NumCallers == 2     \* concurrent caller goroutines
MaxCalls   == 2     \* calls made by all callers together
MaxThreads == 1     \* SetThreads arguments range over -1..MaxThreads
MaxBlock   == 1     \* fakeFail and fakeDelay arguments range over 0..MaxBlock
MaxRate    == 1     \* meter readings and remote rates range over 0..MaxRate
MaxLen     == 2     \* digests given to hashimoto have 0..MaxLen bytes
MaxRuns    == 2     \* calls of hashimotoLight, and of hashimotoFull, per input
MaxEpochs  == 2     \* seedHash is given blocks of epochs 0..MaxEpochs
MaxSeeds   == 2     \* calls of seedHash whose results are kept for comparison
NumDelegates == 2   \* delegating engines in the lock-order scenario
NumLockCallers == 3 \* concurrent callers in the lock-order scenario

\* --------------------------------------------------------------- constants
ModeNormal   == 0
ModeShared   == 1
ModeTest     == 2
ModeFake     == 3
ModeFullFake == 4

Modes == {ModeNormal, ModeShared, ModeTest, ModeFake, ModeFullFake}

\* The package-level variable sharedHmhash names engine 0; the engines
\* constructed by the program's users are 1..NumEngines.
sharedHmhash == 0
Engines == 0..NumEngines
Callers == 1..NumCallers

\* A nil pointer, channel or interface is the empty sequence; a set one is a
\* one-element sequence.
Nil == <<>>
Ref(x) == <<x>>

VARIABLES
    engine,     \* engine[e]: the fields of the Hmhash struct e
    built,      \* the engines that have been constructed
    lock,       \* engine[e].lock: 0 when free, else the caller holding it
    closeOnce,  \* engine[e].closeOnce: [done, m] of the sync.Once
    sealer,     \* the remoteSealer started for e: its loop and its channels
    mining,     \* whether a mining loop is blocked receiving on e.update
    res,        \* res[c]: the buffered reply channel of c's Hashrate call
    pc,         \* pc[c]: the position of caller c
    stack,      \* stack[c]: the receivers of c's active calls, innermost first
    loc,        \* loc[c]: the local Rate1() reading taken by c's Hashrate call
    ret,        \* ret[c]: the call c made last, its argument and its result
    calls,      \* the number of calls started so far
    teardowns,  \* teardowns[e]: executions of close(remote.requestExit)
    lastSet,    \* lastSet[e]: the argument of the last SetThreads to complete on e
    ctor,       \* ctor[e]: the name of the constructor that built e
    run         \* the call of a package-level function under way, and its locals

vars == <<engine, built, lock, closeOnce, sealer, mining, res, pc, stack,
          loc, ret, calls, teardowns, lastSet, ctor, run>>

\* The zero value of the Hmhash struct.
ZeroEngine ==
    [mode |-> 0, threads |-> 0, update |-> Nil, hashrate |-> Nil,
     remote |-> Nil, shared |-> Nil, fakeFail |-> 0, fakeDelay |-> 0]

NoSealer == [pc |-> "none", requestExit |-> FALSE, exitCh |-> FALSE,
             req |-> 0]

\* No package-level function is being run.
NoRun == [fn |-> "none"]

NoCall == [op |-> "none", eng |-> 0, arg |-> 0, val |-> 0, exited |-> FALSE]

\* The engine a caller is executing on: the receiver of its innermost call.
Self(c) == Head(stack[c])

\* ------------------------------------------------------------ construction

\* startRemoteSealer: the sealer's channels are made open and empty and its
\* loop is started.
StartedSealer == [pc |-> "loop", requestExit |-> FALSE, exitCh |-> FALSE,
                  req |-> 0]

\* New binding shared to the singleton in every mode, the singleton's
\* own construction included.
NewEngineAlwaysShared(mode, sharedVar) ==
    [ZeroEngine EXCEPT !.mode = mode,
                       !.update = Ref("chan"),
                       !.hashrate = Ref("meter"),
                       !.shared = Ref(sharedHmhash),
                       !.remote = Ref("sealer")]

\* The struct literal New builds, given the value sharedHmhash holds at the
\* time (Nil while init itself is running).
NewEngine(mode, sharedVar) ==
    [ZeroEngine EXCEPT !.mode = mode,
                       !.update = Ref("chan"),
                       !.hashrate = Ref("meter"),
                       !.shared = IF mode = ModeShared THEN sharedVar ELSE Nil,
                       !.remote = Ref("sealer")]

\* The result of the constructor called name is stored at e; every other
\* variable keeps its zero value until the engine is used.
Construct(e, name, fields, sl) ==
    /\ e \in Engines \ built
    /\ ctor' = [ctor EXCEPT ![e] = name]
    /\ engine' = [engine EXCEPT ![e] = fields]
    /\ sealer' = [sealer EXCEPT ![e] = sl]
    /\ built' = built \cup {e}
    /\ UNCHANGED <<lock, closeOnce, mining, res, pc, stack, loc,
                   ret, calls, teardowns, lastSet, run>>

\* init: sharedHmhash = New(Config{PowMode: ModeNormal}, nil, false), run
\* before any other code of the package.
InitEngines ==
    /\ engine = [e \in Engines |->
                   IF e = sharedHmhash THEN NewEngine(ModeNormal, Nil)
                                       ELSE ZeroEngine]
    /\ built = {sharedHmhash}
    /\ lock = [e \in Engines |-> 0]
    /\ closeOnce = [e \in Engines |-> [done |-> FALSE, m |-> 0]]
    /\ sealer = [e \in Engines |->
                   IF e = sharedHmhash THEN StartedSealer ELSE NoSealer]
    /\ mining = [e \in Engines |-> FALSE]
    /\ res = [c \in Callers |-> Nil]
    /\ pc = [c \in Callers |-> "idle"]
    /\ stack = [c \in Callers |-> <<>>]
    /\ loc = [c \in Callers |-> 0]
    /\ ret = [c \in Callers |-> NoCall]
    /\ calls = 0
    /\ teardowns = [e \in Engines |-> 0]
    /\ lastSet = [e \in Engines |-> 0]
    /\ ctor = [e \in Engines |-> IF e = sharedHmhash THEN "New" ELSE "none"]

\* The program after package initialisation, no package-level function
\* having been called.
Init ==
    /\ InitEngines
    /\ run = NoRun

\* New without the sealer when the mode is ModeShared.
NewSharedStartsNoSealer(e, mode) ==
    IF mode = ModeShared
    THEN Construct(e, "New",
                   [NewEngine(mode, Ref(sharedHmhash)) EXCEPT !.remote = Nil],
                   NoSealer)
    ELSE Construct(e, "New", NewEngine(mode, Ref(sharedHmhash)),
                   StartedSealer)

New(e, mode) ==
    Construct(e, "New", NewEngine(mode, Ref(sharedHmhash)), StartedSealer)

NewTester(e) ==
    Construct(e, "NewTester", NewEngine(ModeTest, Ref(sharedHmhash)),
              StartedSealer)

\* The struct literals of the fake constructors.
FakerEngine == [ZeroEngine EXCEPT !.mode = ModeFake]

FakeFailerEngine(fail) ==
    [ZeroEngine EXCEPT !.mode = ModeFake, !.fakeFail = fail]

FakeDelayerEngine(delay) ==
    [ZeroEngine EXCEPT !.mode = ModeFake, !.fakeDelay = delay]

\* NewFaker with a fail block that no header has.
NewFakerWithoutFailBlock(e) ==
    Construct(e, "NewFaker", [FakerEngine EXCEPT !.fakeFail = -1], NoSealer)

NewFaker(e) ==
    Construct(e, "NewFaker", FakerEngine, NoSealer)

NewFakeFailer(e, fail) ==
    Construct(e, "NewFakeFailer", FakeFailerEngine(fail), NoSealer)

NewFakeDelayer(e, delay) ==
    Construct(e, "NewFakeDelayer", FakeDelayerEngine(delay), NoSealer)

NewFullFaker(e) ==
    Construct(e, "NewFullFaker", [ZeroEngine EXCEPT !.mode = ModeFullFake],
              NoSealer)

\* The struct literal of NewShared.
SharedEngine == [ZeroEngine EXCEPT !.shared = Ref(sharedHmhash)]

NewShared(e) ==
    Construct(e, "NewShared", SharedEngine, NoSealer)

\* ------------------------------------------------------- calls and returns

\* A caller starts a call of op on a constructed engine.  The record of the
\* call notes whether the engine's sealer had confirmed its exit by then.
Call(c, e, op, n, first) ==
    /\ pc[c] = "idle"
    /\ calls < MaxCalls
    /\ e \in built
    /\ calls' = calls + 1
    /\ pc' = [pc EXCEPT ![c] = first]
    /\ stack' = [stack EXCEPT ![c] = <<e>>]
    /\ ret' = [ret EXCEPT ![c] = [op |-> op, eng |-> e, arg |-> n, val |-> 0,
                                  exited |-> sealer[e].exitCh]]

\* The outermost call of c returns val to its caller.
Return(c, val) ==
    /\ pc' = [pc EXCEPT ![c] = "idle"]
    /\ stack' = [stack EXCEPT ![c] = <<>>]
    /\ ret' = [ret EXCEPT ![c].val = val]

\* A nil dereference, or the close of a closed channel, panics the calling
\* goroutine, which ends there.  Hashrate holds no lock and defers nothing,
\* so its panics leave the engines as they are.
Panic(c) ==
    /\ pc' = [pc EXCEPT ![c] = "panicked"]
    /\ UNCHANGED <<stack, ret>>

\* Whether c is inside a call of op whose outermost receiver is e.
Running(c, op, e) ==
    /\ pc[c] \notin {"idle", "panicked"}
    /\ ret[c].op = op
    /\ ret[c].eng = e

\* Whether the last thing c did was to return from a call of op on e.
Returned(c, op, e) ==
    /\ pc[c] = "idle"
    /\ ret[c].op = op
    /\ ret[c].eng = e

\* ------------------------------------------------- Close, StopRemoteSealer

\* Close() calls StopRemoteSealer(), which calls closeOnce.Do(f).
Close(c, e) ==
    /\ Call(c, e, "Close", 0, "once_do")
    /\ UNCHANGED <<engine, built, lock, closeOnce, sealer, mining, res,
                   loc, teardowns, lastSet, ctor, run>>

\* StopRemoteSealer with the closeOnce guard left out: f runs on every call.
OnceDoUnguarded(c) ==
    /\ pc[c] = "once_do"
    /\ pc' = [pc EXCEPT ![c] = "stop_f"]
    /\ UNCHANGED <<engine, built, lock, closeOnce, sealer, mining, res, stack,
                   loc, ret, calls, teardowns, lastSet,
                   ctor, run>>

\* sync.Once.Do, fast path: a set done flag skips f, and StopRemoteSealer
\* returns the nil error (0); otherwise doSlow is entered.
OnceDo(c) ==
    /\ pc[c] = "once_do"
    /\ IF closeOnce[Self(c)].done
         THEN Return(c, 0)
         ELSE /\ pc' = [pc EXCEPT ![c] = "once_slow"]
              /\ UNCHANGED <<stack, ret>>
    /\ UNCHANGED <<engine, built, lock, closeOnce, sealer, mining, res,
                   loc, calls, teardowns, lastSet, ctor, run>>

\* sync.Once.doSlow: the Once's mutex is taken; under it a set done flag
\* releases the mutex and returns, a clear one runs f with the mutex held.
OnceSlow(c) ==
    /\ pc[c] = "once_slow"
    /\ closeOnce[Self(c)].m = 0
    /\ IF closeOnce[Self(c)].done
         THEN /\ Return(c, 0)
              /\ UNCHANGED closeOnce
         ELSE /\ closeOnce' = [closeOnce EXCEPT ![Self(c)].m = c]
              /\ pc' = [pc EXCEPT ![c] = "stop_f"]
              /\ UNCHANGED <<stack, ret>>
    /\ UNCHANGED <<engine, built, lock, sealer, mining, res, loc, calls,
                   teardowns, lastSet, ctor, run>>

\* f with the nil test of remote left out: on an engine without a sealer,
\* remote.requestExit dereferences nil and panics.
StopRemoteSealerUnchecked(c) ==
    /\ pc[c] = "stop_f"
    /\ LET e == Self(c) IN
       IF engine[e].remote = Nil
         THEN /\ Panic(c)
              /\ closeOnce' = [closeOnce EXCEPT ![e] = [done |-> TRUE, m |-> 0]]
              /\ UNCHANGED <<sealer, teardowns>>
         ELSE /\ teardowns' = [teardowns EXCEPT ![e] = @ + 1]
              /\ sealer' = [sealer EXCEPT ![e].requestExit = TRUE]
              /\ pc' = [pc EXCEPT ![c] = "stop_wait"]
              /\ UNCHANGED <<closeOnce, stack, ret>>
    /\ UNCHANGED <<engine, built, lock, mining, res, loc, calls, lastSet,
                   ctor, run>>

\* StopRemoteSealer going through shared: on a delegating engine it stops
\* the sealer of the engine it delegates to.
StopRemoteSealerOfShared(c) ==
    /\ pc[c] = "stop_f"
    /\ LET e == Self(c)
           t == IF engine[e].shared # Nil THEN engine[e].shared[1] ELSE e
       IN
       IF engine[t].remote = Nil
         THEN /\ closeOnce' = [closeOnce EXCEPT ![e] = [done |-> TRUE, m |-> 0]]
              /\ Return(c, 0)
              /\ UNCHANGED <<sealer, teardowns>>
         ELSE /\ teardowns' = [teardowns EXCEPT ![t] = @ + 1]
              /\ IF sealer[t].requestExit
                   THEN /\ Panic(c)
                        /\ closeOnce' = [closeOnce EXCEPT
                                           ![e] = [done |-> TRUE, m |-> 0]]
                        /\ UNCHANGED sealer
                   ELSE /\ sealer' = [sealer EXCEPT ![t].requestExit = TRUE]
                        /\ pc' = [pc EXCEPT ![c] = "stop_wait"]
                        /\ UNCHANGED <<closeOnce, stack, ret>>
    /\ UNCHANGED <<engine, built, lock, mining, res, loc, calls, lastSet,
                   ctor, run>>

\* The function StopRemoteSealer hands to closeOnce.Do, up to its receive:
\* with no remote sealer it returns at once (doSlow's deferred calls set done
\* and release the mutex); otherwise it closes remote.requestExit and goes on
\* to wait.  Closing a closed channel panics.
StopRemoteSealer(c) ==
    /\ pc[c] = "stop_f"
    /\ LET e == Self(c) IN
       IF engine[e].remote = Nil
         THEN /\ closeOnce' = [closeOnce EXCEPT ![e] = [done |-> TRUE, m |-> 0]]
              /\ Return(c, 0)
              /\ UNCHANGED <<sealer, teardowns>>
         ELSE /\ teardowns' = [teardowns EXCEPT ![e] = @ + 1]
              /\ IF sealer[e].requestExit
                   THEN /\ Panic(c)
                        /\ closeOnce' = [closeOnce EXCEPT
                                           ![e] = [done |-> TRUE, m |-> 0]]
                        /\ UNCHANGED sealer
                   ELSE /\ sealer' = [sealer EXCEPT ![e].requestExit = TRUE]
                        /\ pc' = [pc EXCEPT ![c] = "stop_wait"]
                        /\ UNCHANGED <<closeOnce, stack, ret>>
    /\ UNCHANGED <<engine, built, lock, mining, res, loc, calls, lastSet,
                   ctor, run>>

\* f with the receive from exitCh left out: it returns right after the close.
StopNoWait(c) ==
    /\ pc[c] = "stop_wait"
    /\ closeOnce' = [closeOnce EXCEPT ![Self(c)] = [done |-> TRUE, m |-> 0]]
    /\ Return(c, 0)
    /\ UNCHANGED <<engine, built, lock, sealer, mining, res, loc, calls,
                   teardowns, lastSet, ctor, run>>

\* <-remote.exitCh: the receive completes once exitCh is closed; f returns,
\* doSlow sets done and releases the mutex, StopRemoteSealer returns nil.
StopWait(c) ==
    /\ pc[c] = "stop_wait"
    /\ sealer[Self(c)].exitCh
    /\ closeOnce' = [closeOnce EXCEPT ![Self(c)] = [done |-> TRUE, m |-> 0]]
    /\ Return(c, 0)
    /\ UNCHANGED <<engine, built, lock, sealer, mining, res, loc, calls,
                   teardowns, lastSet, ctor, run>>

\* ------------------------------------------------------ Threads, SetThreads

Threads(c, e) ==
    /\ Call(c, e, "Threads", 0, "thr_lock")
    /\ UNCHANGED <<engine, built, lock, closeOnce, sealer, mining, res,
                   loc, teardowns, lastSet, ctor, run>>

\* hmhash.lock.Lock() of Threads.
ThreadsLock(c) ==
    /\ pc[c] = "thr_lock"
    /\ lock[Self(c)] = 0
    /\ lock' = [lock EXCEPT ![Self(c)] = c]
    /\ pc' = [pc EXCEPT ![c] = "thr_read"]
    /\ UNCHANGED <<engine, built, closeOnce, sealer, mining, res, stack,
                   loc, ret, calls, teardowns, lastSet,
                   ctor, run>>

\* return hmhash.threads, with the deferred Unlock.
ThreadsReturn(c) ==
    /\ pc[c] = "thr_read"
    /\ lock' = [lock EXCEPT ![Self(c)] = 0]
    /\ Return(c, engine[Self(c)].threads)
    /\ UNCHANGED <<engine, built, closeOnce, sealer, mining, res, loc,
                   calls, teardowns, lastSet, ctor, run>>

SetThreads(c, e, threads) ==
    /\ Call(c, e, "SetThreads", threads, "set_lock")
    /\ UNCHANGED <<engine, built, lock, closeOnce, sealer, mining, res,
                   loc, teardowns, lastSet, ctor, run>>

\* SetThreads going on without waiting for the lock to be free.
SetThreadsLockUnguarded(c) ==
    /\ pc[c] = "set_lock"
    /\ lock' = [lock EXCEPT ![Self(c)] = c]
    /\ pc' = [pc EXCEPT ![c] = "set_body"]
    /\ UNCHANGED <<engine, built, closeOnce, sealer, mining, res, stack,
                   loc, ret, calls, teardowns, lastSet,
                   ctor, run>>

\* hmhash.lock.Lock() of SetThreads; sync.Mutex is not reentrant.
SetThreadsLock(c) ==
    /\ pc[c] = "set_lock"
    /\ lock[Self(c)] = 0
    /\ lock' = [lock EXCEPT ![Self(c)] = c]
    /\ pc' = [pc EXCEPT ![c] = "set_body"]
    /\ UNCHANGED <<engine, built, closeOnce, sealer, mining, res, stack,
                   loc, ret, calls, teardowns, lastSet,
                   ctor, run>>

\* select { case hmhash.update <- struct{}{}: default: }: the send is taken
\* when update is non-nil and a mining loop is receiving on it, and that
\* loop then stops waiting; otherwise the default is taken and nothing
\* changes.  The value is whether a mining loop is still waiting afterwards.
PingUpdate(e) ==
    IF engine[e].update # Nil /\ mining[e] THEN FALSE ELSE mining[e]

\* SetThreads refusing a negative count: it stores 0 in its place.
SetThreadsBodyClamps(c) ==
    /\ pc[c] = "set_body"
    /\ LET e == Self(c) IN
       IF engine[e].shared # Nil
         THEN /\ stack' = [stack EXCEPT ![c] = <<engine[e].shared[1]>> \o @]
              /\ pc' = [pc EXCEPT ![c] = "set_lock"]
              /\ UNCHANGED <<engine, mining>>
         ELSE /\ engine' = [engine EXCEPT
                              ![e].threads = IF ret[c].arg < 0 THEN 0 ELSE ret[c].arg]
              /\ mining' = [mining EXCEPT ![e] = PingUpdate(e)]
              /\ pc' = [pc EXCEPT ![c] = "set_unlock"]
              /\ UNCHANGED stack
    /\ UNCHANGED <<built, lock, closeOnce, sealer, res, loc, ret, calls,
                   teardowns, lastSet, ctor, run>>

\* SetThreads with the test of shared left out: the count is stored in the
\* engine it was called on.
SetThreadsBodyLocal(c) ==
    /\ pc[c] = "set_body"
    /\ engine' = [engine EXCEPT ![Self(c)].threads = ret[c].arg]
    /\ mining' = [mining EXCEPT ![Self(c)] = PingUpdate(Self(c))]
    /\ pc' = [pc EXCEPT ![c] = "set_unlock"]
    /\ UNCHANGED <<built, lock, closeOnce, sealer, res, stack, loc, ret, calls,
                   teardowns, lastSet, ctor, run>>

\* SetThreads with a plain send hmhash.update <- struct{}{} in place of the
\* select: it waits until update is non-nil and a mining loop receives.
SetThreadsBodyBlockingSend(c) ==
    /\ pc[c] = "set_body"
    /\ LET e == Self(c) IN
       IF engine[e].shared # Nil
         THEN /\ stack' = [stack EXCEPT ![c] = <<engine[e].shared[1]>> \o @]
              /\ pc' = [pc EXCEPT ![c] = "set_lock"]
              /\ UNCHANGED <<engine, mining>>
         ELSE /\ engine[e].update # Nil
              /\ mining[e]
              /\ engine' = [engine EXCEPT ![e].threads = ret[c].arg]
              /\ mining' = [mining EXCEPT ![e] = FALSE]
              /\ pc' = [pc EXCEPT ![c] = "set_unlock"]
              /\ UNCHANGED stack
    /\ UNCHANGED <<built, lock, closeOnce, sealer, res, loc, ret, calls,
                   teardowns, lastSet, ctor, run>>

\* The body of SetThreads under the lock.  With shared set it calls
\* shared.SetThreads(threads), a new frame on the caller's stack.  Otherwise
\* it stores threads and pings update without blocking.
SetThreadsBody(c) ==
    /\ pc[c] = "set_body"
    /\ LET e == Self(c) IN
       IF engine[e].shared # Nil
         THEN /\ stack' = [stack EXCEPT ![c] = <<engine[e].shared[1]>> \o @]
              /\ pc' = [pc EXCEPT ![c] = "set_lock"]
              /\ UNCHANGED <<engine, mining>>
         ELSE /\ engine' = [engine EXCEPT ![e].threads = ret[c].arg]
              /\ mining' = [mining EXCEPT ![e] = PingUpdate(e)]
              /\ pc' = [pc EXCEPT ![c] = "set_unlock"]
              /\ UNCHANGED stack
    /\ UNCHANGED <<built, lock, closeOnce, sealer, res, loc, ret, calls,
                   teardowns, lastSet, ctor, run>>

\* The deferred hmhash.lock.Unlock() and the return: to the SetThreads frame
\* that forwarded the call, or to the caller.
SetThreadsUnlock(c) ==
    /\ pc[c] = "set_unlock"
    /\ lock' = [lock EXCEPT ![Self(c)] = 0]
    /\ lastSet' = [lastSet EXCEPT ![Self(c)] = ret[c].arg]
    /\ IF Len(stack[c]) > 1
         THEN /\ stack' = [stack EXCEPT ![c] = Tail(@)]
              /\ UNCHANGED <<pc, ret>>
         ELSE Return(c, 0)
    /\ UNCHANGED <<engine, built, closeOnce, sealer, mining, res, loc,
                   calls, teardowns, ctor, run>>

\* ----------------------------------------------------------------- Hashrate

Hashrate(c, e) ==
    /\ Call(c, e, "Hashrate", 0, "hr_mode")
    /\ UNCHANGED <<engine, built, lock, closeOnce, sealer, mining, res, loc,
                   teardowns, lastSet, ctor, run>>

\* return hmhash.hashrate.Rate1() on the receiver of c's call: calling
\* Rate1 on a nil meter interface panics; a meter gives the reading rate its
\* decaying average has at that time, which c returns.
ReturnRate1(c, rate) ==
    IF engine[Self(c)].hashrate = Nil
      THEN /\ Panic(c)
           /\ UNCHANGED loc
      ELSE /\ loc' = [loc EXCEPT ![c] = rate]
           /\ Return(c, rate)

\* The mode test of Hashrate.  Outside ModeNormal and ModeTest the local
\* meter is returned.  Otherwise res is made and the select is entered;
\* evaluating hmhash.remote.fetchRateCh with a nil remote panics.
HashrateMode(c, rate) ==
    /\ pc[c] = "hr_mode"
    /\ LET e == Self(c) IN
       IF engine[e].mode # ModeNormal /\ engine[e].mode # ModeTest
         THEN /\ ReturnRate1(c, rate)
              /\ UNCHANGED res
         ELSE /\ res' = [res EXCEPT ![c] = Nil]
              /\ IF engine[e].remote = Nil
                   THEN Panic(c)
                   ELSE /\ pc' = [pc EXCEPT ![c] = "hr_select"]
                        /\ UNCHANGED <<stack, ret>>
              /\ UNCHANGED loc
    /\ UNCHANGED <<engine, built, lock, closeOnce, sealer, mining, calls,
                   teardowns, lastSet, ctor, run>>

\* case hmhash.remote.fetchRateCh <- res: the channel is unbuffered, so the
\* send completes when the sealer's loop is at its select and receives it.
HashrateSend(c) ==
    /\ pc[c] = "hr_select"
    /\ sealer[Self(c)].pc = "loop"
    /\ sealer' = [sealer EXCEPT ![Self(c)].pc = "reply", ![Self(c)].req = c]
    /\ pc' = [pc EXCEPT ![c] = "hr_rate"]
    /\ UNCHANGED <<engine, built, lock, closeOnce, mining, res, stack, loc,
                   ret, calls, teardowns, lastSet, ctor, run>>

\* The exit case with its return left out: control falls through to the sum.
HashrateExitFallsThrough(c, rate) ==
    /\ pc[c] = "hr_select"
    /\ sealer[Self(c)].exitCh
    /\ pc' = [pc EXCEPT ![c] = "hr_rate"]
    /\ UNCHANGED <<engine, built, lock, closeOnce, sealer, mining, res, stack,
                   loc, ret, calls, teardowns, lastSet,
                   ctor, run>>

\* The select with no exit case: only the send can complete.
HashrateNoExitCase(c, rate) ==
    /\ pc[c] = "hr_select"
    /\ FALSE
    /\ UNCHANGED vars

\* case <-hmhash.remote.exitCh: taken once exitCh is closed; the local
\* hashrate alone is returned.
HashrateExit(c, rate) ==
    /\ pc[c] = "hr_select"
    /\ sealer[Self(c)].exitCh
    /\ ReturnRate1(c, rate)
    /\ UNCHANGED <<engine, built, lock, closeOnce, sealer, mining, res, calls,
                   teardowns, lastSet, ctor, run>>

\* The left operand of the final sum, hmhash.hashrate.Rate1(), is evaluated
\* before the receive from res.
HashrateRate(c, rate) ==
    /\ pc[c] = "hr_rate"
    /\ IF engine[Self(c)].hashrate = Nil
         THEN /\ Panic(c)
              /\ UNCHANGED loc
         ELSE /\ loc' = [loc EXCEPT ![c] = rate]
              /\ pc' = [pc EXCEPT ![c] = "hr_recv"]
              /\ UNCHANGED <<stack, ret>>
    /\ UNCHANGED <<engine, built, lock, closeOnce, sealer, mining, res, calls,
                   teardowns, lastSet, ctor, run>>

\* <-res: blocks until the sealer's reply is in the channel; the sum of the
\* local reading and the reply is returned.
HashrateRecv(c) ==
    /\ pc[c] = "hr_recv"
    /\ res[c] # Nil
    /\ res' = [res EXCEPT ![c] = Nil]
    /\ Return(c, loc[c] + res[c][1])
    /\ UNCHANGED <<engine, built, lock, closeOnce, sealer, mining, loc, calls,
                   teardowns, lastSet, ctor, run>>

\* --------------------------------------------------------------------- APIs

\* APIs builds the list of the two RPC services that wrap the engine and
\* returns it; it reads and writes no field of the engine.
APIs(c, e) ==
    /\ pc[c] = "idle"
    /\ calls < MaxCalls
    /\ e \in built
    /\ calls' = calls + 1
    /\ ret' = [ret EXCEPT ![c] = [op |-> "APIs", eng |-> e, arg |-> 0,
                                  val |-> 2, exited |-> sealer[e].exitCh]]
    /\ UNCHANGED <<engine, built, lock, closeOnce, sealer, mining, res, pc,
                   stack, loc, teardowns, lastSet, ctor, run>>

\* ------------------------------------------------------------ remote sealer

\* The sealer's loop answers the request it accepted: the aggregate rate of
\* the hashrates the external miners have reported by then is put into the
\* request's reply channel (buffered, so the send cannot block) and the loop
\* goes back to its select.
SealerReply(e, rate) ==
    /\ sealer[e].pc = "reply"
    /\ res' = [res EXCEPT ![sealer[e].req] = <<rate>>]
    /\ sealer' = [sealer EXCEPT ![e].pc = "loop", ![e].req = 0]
    /\ UNCHANGED <<engine, built, lock, closeOnce, mining, pc, stack, loc, ret,
                   calls, teardowns, lastSet, ctor, run>>

\* The sealer's loop, at its select, sees requestExit closed, unwinds and
\* confirms by closing exitCh.
SealerExit(e) ==
    /\ sealer[e].pc = "loop"
    /\ sealer[e].requestExit
    /\ sealer' = [sealer EXCEPT ![e].pc = "exited", ![e].exitCh = TRUE]
    /\ UNCHANGED <<engine, built, lock, closeOnce, mining, res, pc, stack, loc,
                   ret, calls, teardowns, lastSet, ctor, run>>

\* ------------------------------------------------------- mining environment

\* A mining loop of e comes to wait for a ping on e.update.
MineWait(e) ==
    /\ e \in built
    /\ engine[e].update # Nil
    /\ ~mining[e]
    /\ mining' = [mining EXCEPT ![e] = TRUE]
    /\ UNCHANGED <<engine, built, lock, closeOnce, sealer, res, pc,
                   stack, loc, ret, calls, teardowns, lastSet,
                   ctor, run>>

\* ------------------------------------------------------------ specification

Next ==
    \/ \E e \in Engines, mode \in Modes : New(e, mode)
    \/ \E e \in Engines : NewTester(e)
    \/ \E e \in Engines : NewFaker(e)
    \/ \E e \in Engines, fail \in 0..MaxBlock : NewFakeFailer(e, fail)
    \/ \E e \in Engines, delay \in 0..MaxBlock : NewFakeDelayer(e, delay)
    \/ \E e \in Engines : NewFullFaker(e)
    \/ \E e \in Engines : NewShared(e)
    \/ \E c \in Callers, e \in Engines : Close(c, e)
    \/ \E c \in Callers : OnceDo(c)
    \/ \E c \in Callers : OnceSlow(c)
    \/ \E c \in Callers : StopRemoteSealer(c)
    \/ \E c \in Callers : StopWait(c)
    \/ \E c \in Callers, e \in Engines : Threads(c, e)
    \/ \E c \in Callers : ThreadsLock(c)
    \/ \E c \in Callers : ThreadsReturn(c)
    \/ \E c \in Callers, e \in Engines, n \in -1..MaxThreads : SetThreads(c, e, n)
    \/ \E c \in Callers : SetThreadsLock(c)
    \/ \E c \in Callers : SetThreadsBody(c)
    \/ \E c \in Callers : SetThreadsUnlock(c)
    \/ \E c \in Callers, e \in Engines : Hashrate(c, e)
    \/ \E c \in Callers, rate \in 0..MaxRate : HashrateMode(c, rate)
    \/ \E c \in Callers : HashrateSend(c)
    \/ \E c \in Callers, rate \in 0..MaxRate : HashrateExit(c, rate)
    \/ \E c \in Callers, rate \in 0..MaxRate : HashrateRate(c, rate)
    \/ \E c \in Callers : HashrateRecv(c)
    \/ \E c \in Callers, e \in Engines : APIs(c, e)
    \/ \E e \in Engines, rate \in 0..MaxRate : SealerReply(e, rate)
    \/ \E e \in Engines : SealerExit(e)
    \/ \E e \in Engines : MineWait(e)

Spec == Init /\ [][Next]_vars

\* A goroutine inside a call keeps being scheduled, and so does the sealer's
\* loop; nothing obliges a caller to start a call, the program to construct
\* an engine or a mining loop to wait.
Step(c) ==
    \/ OnceDo(c) \/ OnceSlow(c) \/ StopRemoteSealer(c) \/ StopWait(c)
    \/ ThreadsLock(c) \/ ThreadsReturn(c)
    \/ SetThreadsLock(c) \/ SetThreadsBody(c) \/ SetThreadsUnlock(c)
    \/ HashrateSend(c) \/ HashrateRecv(c)
    \/ \E rate \in 0..MaxRate :
         HashrateMode(c, rate) \/ HashrateExit(c, rate) \/ HashrateRate(c, rate)

SealerStep(e) == SealerExit(e) \/ \E rate \in 0..MaxRate : SealerReply(e, rate)

FairSpec ==
    /\ Spec
    /\ \A c \in Callers : WF_vars(Step(c))
    /\ \A e \in Engines : WF_vars(SealerStep(e))

\* ------------------------------------------------------------------- claims

ClosePcs == {"once_do", "once_slow", "stop_f", "stop_wait"}
HashratePcs == {"hr_mode", "hr_select", "hr_rate", "hr_recv"}

\* The engines that own a remote sealer, and those that delegate.
HasSealer(e) == e \in built /\ engine[e].remote # Nil
Delegating(e) == e \in built /\ engine[e].shared # Nil

\* C1: on an engine that owns a remote sealer, however many Close calls are
\* made and however they interleave, close(requestExit) runs at most once,
\* no call panics, and every call that has returned finds the teardown
\* complete: requestExit closed exactly once, exitCh closed, the Once done.
CloseTearsDownOnce ==
    \A e \in Engines :
        /\ teardowns[e] <= 1
        /\ \A c \in Callers :
             /\ ret[c].op = "Close" => pc[c] # "panicked"
             /\ (Returned(c, "Close", e) /\ HasSealer(e)) =>
                  /\ teardowns[e] = 1
                  /\ sealer[e].requestExit
                  /\ sealer[e].exitCh
                  /\ closeOnce[e].done

\* C1 witness: every caller has returned from a Close of the same engine
\* with a sealer, and the teardown ran once.
CloseTwiceReturned ==
    \E e \in Engines :
        /\ HasSealer(e)
        /\ teardowns[e] = 1
        /\ \A c \in Callers : Returned(c, "Close", e)

\* A step taken by a Close call of c on an engine without a remote sealer.
CloseStepNoSealer(c) ==
    /\ pc[c] \in ClosePcs
    /\ pc'[c] # pc[c]
    /\ engine[Self(c)].remote = Nil

\* What such a step leaves alone whatever the reading of "engine field":
\* the struct's data fields, its lock, every channel, and the caller is
\* neither parked on a receive nor panicked, and returns the nil error.
CloseStepFrame(c) ==
    /\ engine' = engine
    /\ lock' = lock
    /\ sealer' = sealer
    /\ mining' = mining
    /\ teardowns' = teardowns
    /\ pc'[c] \notin {"stop_wait", "panicked"}
    /\ pc'[c] = "idle" => ret'[c].val = 0

\* C2 as claimed: on an engine for which no remote sealer was started, no
\* step of a Close call blocks, signals a channel or changes any field of
\* the engine, the done flag of its closeOnce field included.
CloseNoSealerChangesNothing ==
    [][\A c \in Callers :
         CloseStepNoSealer(c) =>
            /\ CloseStepFrame(c)
            /\ closeOnce'[Self(c)].done = closeOnce[Self(c)].done]_vars

\* C2 as amended: the same, except that the closeOnce guard is used.  Its
\* done flag is set by the first call and never changes again, and its
\* mutex is only ever held by a call that is running f and is not parked, so
\* a concurrent call waits for it no longer than f takes to return.
CloseNoSealerNoOp ==
    /\ [][\A c \in Callers :
            CloseStepNoSealer(c) =>
               /\ CloseStepFrame(c)
               /\ closeOnce[Self(c)].done =>
                    closeOnce'[Self(c)] = closeOnce[Self(c)]]_vars
    /\ [](\A e \in built :
            (engine[e].remote = Nil /\ closeOnce[e].m # 0) =>
               /\ pc[closeOnce[e].m] = "stop_f"
               /\ Self(closeOnce[e].m) = e
               /\ ~closeOnce[e].done)

\* C2 witness: a first and a repeated Close have both returned on an engine
\* that has no remote sealer.
CloseNoSealerReturned ==
    \E e \in Engines :
        /\ e \in built
        /\ engine[e].remote = Nil
        /\ closeOnce[e].done
        /\ \A c \in Callers : Returned(c, "Close", e)

\* C3: on an engine with a running sealer a Close call has closed
\* requestExit before it waits, has not returned unless exitCh is closed,
\* and, the sealer's loop being scheduled, returns.
CloseBlocksUntilExit ==
    /\ [](\A c \in Callers :
            /\ (pc[c] = "stop_wait") => sealer[Self(c)].requestExit
            /\ (ret[c].op = "Close" /\ pc[c] = "idle" /\ HasSealer(ret[c].eng))
                 => sealer[ret[c].eng].exitCh)
    /\ \A c \in Callers : (pc[c] \in ClosePcs) ~> (pc[c] = "idle")

\* C3 witness: a Close call is parked on exitCh, the exit requested and not
\* yet confirmed.
CloseWaiting ==
    \E c \in Callers :
        /\ pc[c] = "stop_wait"
        /\ sealer[Self(c)].requestExit
        /\ ~sealer[Self(c)].exitCh

\* C4: a Hashrate call started on a ModeNormal or ModeTest engine whose
\* sealer had already confirmed its exit returns, and what it returns is the
\* local meter's reading with nothing added.
HashrateAfterExit ==
    /\ [](\A c \in Callers :
            (ret[c].op = "Hashrate" /\ ret[c].exited) =>
               /\ pc[c] \in {"hr_mode", "hr_select", "idle"}
               /\ pc[c] = "idle" => ret[c].val = loc[c])
    /\ \A c \in Callers :
         (pc[c] \in HashratePcs /\ ret[c].exited) ~> (pc[c] = "idle")

\* C4 witness: such a call has returned, on an engine of mode ModeTest.
HashrateAfterExitReturned ==
    \E c \in Callers :
        /\ Returned(c, "Hashrate", ret[c].eng)
        /\ ret[c].exited
        /\ engine[ret[c].eng].mode = ModeTest

\* C5: a Hashrate call on an engine with a remote sealer returns in every
\* interleaving with Close, the sealer's reply and the sealer's exit.
HashrateReturns ==
    \A c \in Callers :
        (pc[c] \in HashratePcs /\ HasSealer(ret[c].eng)) ~> (pc[c] = "idle")

\* C5 witness: the sealer has accepted a Hashrate request after its exit
\* was requested and before it exits.
HashrateAcceptedBeforeExit ==
    \E c \in Callers :
        /\ pc[c] \in {"hr_rate", "hr_recv"}
        /\ sealer[Self(c)].pc = "reply"
        /\ sealer[Self(c)].req = c
        /\ sealer[Self(c)].requestExit

\* C6 as claimed: on every engine whose mode is neither ModeNormal nor
\* ModeTest a Hashrate call does not fault, never enters the request to the
\* sealer, and returns the local meter's reading.
HashrateLocalOnly ==
    \A c \in Callers :
        (ret[c].op = "Hashrate"
           /\ engine[ret[c].eng].mode \notin {ModeNormal, ModeTest}) =>
             /\ pc[c] \in {"hr_mode", "idle"}
             /\ pc[c] = "idle" => ret[c].val = loc[c]

\* The step by which a Threads call of c returns.
ThreadsReturns(c) == pc[c] = "thr_read" /\ pc'[c] = "idle"

\* C7: on an engine with no shared delegate, whenever no caller is inside
\* the lock the stored thread count is the argument of the last SetThreads
\* to complete (0 before any), and that is what every Threads call returns,
\* for negative, zero and positive arguments alike.
ThreadsReturnsLastSet ==
    /\ [](\A e \in built :
            (engine[e].shared = Nil /\ lock[e] = 0) =>
                engine[e].threads = lastSet[e])
    /\ [][\A c \in Callers :
            (ThreadsReturns(c) /\ engine[Self(c)].shared = Nil) =>
                ret'[c].val = lastSet[Self(c)]]_vars

\* C7 witness: Threads has returned -1 on an engine with no shared delegate.
ThreadsReturnedNegative ==
    \E c \in Callers :
        /\ Returned(c, "Threads", ret[c].eng)
        /\ engine[ret[c].eng].shared = Nil
        /\ ret[c].val = -1

\* C8: SetThreads(n) on a delegating engine is forwarded.  The forwarded
\* frame runs on sharedHmhash and has stored n there when it unlocks; the
\* delegating engine stores nothing itself; and when that SetThreads(n) and
\* a Threads on sharedHmhash are the only two calls made, a Threads that
\* returns after the SetThreads has returned returns n.
SetThreadsForwarded ==
    /\ [](\A c \in Callers :
            (pc[c] = "set_unlock" /\ Delegating(ret[c].eng)) =>
               /\ Len(stack[c]) = 2 =>
                    /\ Self(c) = sharedHmhash
                    /\ engine[sharedHmhash].threads = ret[c].arg
               /\ Len(stack[c]) = 1 => Self(c) = ret[c].eng)
    /\ [](\A e \in built : Delegating(e) => engine[e].threads = 0)
    /\ [][\A c, d \in Callers :
            (/\ ThreadsReturns(c)
             /\ Self(c) = sharedHmhash
             /\ calls = 2
             /\ Returned(d, "SetThreads", ret[d].eng)
             /\ Delegating(ret[d].eng)) =>
                ret'[c].val = ret[d].arg]_vars

\* C8 witness: SetThreads(1) returned on a delegating engine, then Threads
\* on sharedHmhash returned 1, no other call having been made.
ForwardedThenRead ==
    \E c, d \in Callers :
        /\ calls = 2
        /\ Returned(d, "SetThreads", ret[d].eng)
        /\ Delegating(ret[d].eng)
        /\ ret[d].arg = 1
        /\ Returned(c, "Threads", sharedHmhash)
        /\ ret[c].val = 1

\* C9 as claimed: Threads on a delegating engine is forwarded too, so in
\* every state where nobody is inside either lock the count a delegating
\* engine would return equals the count sharedHmhash would return.
ThreadsReadForwarded ==
    \A e \in built :
        (Delegating(e) /\ lock[e] = 0 /\ lock[sharedHmhash] = 0) =>
            engine[e].threads = engine[sharedHmhash].threads

\* C10 as claimed: on an engine built by NewShared, whose only populated
\* field is shared, a Hashrate call does not fault.
NewSharedHashrateDelegates ==
    \A c \in Callers :
        (ret[c].op = "Hashrate"
           /\ engine[ret[c].eng] = [ZeroEngine EXCEPT !.shared = Ref(sharedHmhash)])
             => pc[c] # "panicked"

\* C11: construction decides whether an engine has a remote sealer.  An
\* engine built by New or NewTester has one, in every mode; an engine built
\* by NewFaker, NewFakeFailer, NewFakeDelayer or NewFullFaker has none; and
\* no step taken after construction (of Threads, SetThreads, Hashrate,
\* Close or APIs) starts a sealer or changes the engine's remote field.
FakeCtors == {"NewFaker", "NewFakeFailer", "NewFakeDelayer", "NewFullFaker"}

SealerByConstruction ==
    /\ [](\A e \in built :
            /\ ctor[e] \in {"New", "NewTester"} =>
                 /\ engine[e].remote # Nil
                 /\ sealer[e].pc # "none"
            /\ ctor[e] \in FakeCtors =>
                 /\ engine[e].remote = Nil
                 /\ sealer[e].pc = "none")
    /\ [][\A e \in built :
            /\ engine'[e].remote = engine[e].remote
            /\ (sealer'[e].pc = "none") <=> (sealer[e].pc = "none")
            /\ sealer[e].pc = "exited" => sealer'[e].pc = "exited"]_vars

\* A ModeShared engine built by New has its sealer running after an APIs
\* call on it.
SealerInSharedMode ==
    \E e \in built :
        /\ ctor[e] = "New"
        /\ engine[e].mode = ModeShared
        /\ sealer[e].pc = "loop"
        /\ \E c \in Callers : ret[c].op = "APIs" /\ ret[c].eng = e

\* ------------------------------------------------------- seal verification

\* The error verification returns for a rejected seal; nil is 0.
errInvalidPoW == 1

\* Verification of the seal of a header with number block.  Its code is not
\* in algorithm.go; it is modelled from its contract: ModeFullFake accepts
\* everything, ModeFake rejects exactly the block whose number equals the
\* engine's fakeFail field, and the other modes run the hash primitive on the
\* header, whose outcome depends on the seal presented.
VerifySeal(c, e, block, sealOk) ==
    /\ pc[c] = "idle"
    /\ e \in built
    /\ ret' = [ret EXCEPT ![c] =
                 [op |-> "VerifySeal", eng |-> e, arg |-> block,
                  val |-> CASE engine[e].mode = ModeFullFake -> 0
                            [] engine[e].mode = ModeFake ->
                                 IF engine[e].fakeFail = block
                                 THEN errInvalidPoW ELSE 0
                            [] OTHER ->
                                 IF sealOk THEN 0 ELSE errInvalidPoW,
                  exited |-> sealer[e].exitCh]]
    /\ UNCHANGED <<engine, built, lock, closeOnce, sealer, mining, res, pc,
                   stack, loc, calls, teardowns, lastSet, ctor, run>>

\* The program constructs an engine.
Build ==
    \/ \E e \in Engines, mode \in Modes : New(e, mode)
    \/ \E e \in Engines : NewTester(e)
    \/ \E e \in Engines : NewFaker(e)
    \/ \E e \in Engines, fail \in 0..MaxBlock : NewFakeFailer(e, fail)
    \/ \E e \in Engines, delay \in 0..MaxBlock : NewFakeDelayer(e, delay)
    \/ \E e \in Engines : NewFullFaker(e)
    \/ \E e \in Engines : NewShared(e)

\* Engines are constructed and headers of blocks 0..MaxBlock+1 verified.
VerifyNext ==
    \/ Build
    \/ \E c \in Callers, e \in Engines, block \in 0..(MaxBlock + 1),
          sealOk \in BOOLEAN : VerifySeal(c, e, block, sealOk)

VerifySpec == Init /\ [][VerifyNext]_vars

\* C12: every verification on an engine built by NewFaker is accepted,
\* block 0 included, and a verification on an engine built by
\* NewFakeFailer(k) is rejected exactly when the block number is k.
FakerAcceptsEveryBlock ==
    \A c \in Callers :
        ret[c].op = "VerifySeal" =>
            /\ ctor[ret[c].eng] = "NewFaker" => ret[c].val = 0
            /\ ctor[ret[c].eng] = "NewFakeFailer" =>
                 (ret[c].val = errInvalidPoW
                    <=> ret[c].arg = engine[ret[c].eng].fakeFail)

\* Everything the program holds of engine e, the record of which constructor
\* was called apart.
EngineState(e) ==
    [fields |-> engine[e], lock |-> lock[e], closeOnce |-> closeOnce[e],
     sealer |-> sealer[e], mining |-> mining[e]]

RECURSIVE XorBits(_, _, _)
XorBits(a, b, n) ==
    IF n = 0 THEN 0
    ELSE (((a % 2) + (b % 2)) % 2)
           + 2 * XorBits(a \div 2, b \div 2, n - 1)

Xor(a, b) == XorBits(a, b, 8)

\* The byte values the digests are drawn from, and the digests.
ByteSamples == {0, 1, 255}
Digests == UNION {[1..n -> ByteSamples] : n \in 0..MaxLen}

\* TestHashimoto's header digest and the result it wants.
TestHash ==
    <<201, 20, 156, 192, 56, 110, 104, 157, 120, 154, 28, 47, 61, 93, 22, 154,
      97, 166, 33, 142, 211, 14, 116, 65, 77, 199, 54, 228, 66, 239, 61, 31>>

WantResult ==
    <<211, 83, 146, 53, 238, 46, 111, 141, 182, 101, 192, 167, 33, 105, 245,
      91, 127, 108, 96, 87, 18, 51, 11, 119, 142, 195, 148, 79, 14, 181, 165,
      87>>

\* The digest of nonce 0 the test passes, types.EncodeNonce(0).Hash(), whose
\* code is not in algorithm.go: 32 zero bytes.
NonceZeroDigest == [i \in 1..32 |-> 0]

\* A caller holding the arguments hash and nonce, and the results the calls
\* made so far with them returned.
HashRun(hash, nonce) ==
    [fn |-> "idle", hash |-> hash, nonceHash |-> nonce, resultBytes |-> <<>>,
     i |-> 0, light |-> <<>>, full |-> <<>>]

HashInit ==
    /\ InitEngines
    /\ run \in {HashRun(h, n) : h \in Digests, n \in Digests}
                 \cup {HashRun(TestHash, NonceZeroDigest)}

\* hashimoto's entry: resultBytes := make([]byte, len(hash)); i := 0.
hashimoto(fn) ==
    /\ run.fn = "idle"
    /\ run' = [run EXCEPT !.fn = fn,
                          !.resultBytes = [k \in 1..Len(run.hash) |-> 0],
                          !.i = 0]
    /\ UNCHANGED <<engine, built, lock, closeOnce, sealer, mining, res, pc,
                   stack, loc, ret, calls, teardowns, lastSet, ctor>>

hashimotoLight ==
    /\ Len(run.light) < MaxRuns
    /\ hashimoto("hashimotoLight")

hashimotoFull ==
    /\ Len(run.full) < MaxRuns
    /\ hashimoto("hashimotoFull")

\* The loop body with the full variant leaving the nonce digest out.
hashimotoLoopFullDrops ==
    /\ run.fn \in {"hashimotoLight", "hashimotoFull"}
    /\ run.i < Len(run.hash)
    /\ run' = IF run.i >= Len(run.nonceHash)
              THEN [run EXCEPT !.fn = "panicked"]
              ELSE [run EXCEPT
                      !.resultBytes[run.i + 1] =
                          IF run.fn = "hashimotoFull"
                          THEN run.hash[run.i + 1]
                          ELSE Xor(run.hash[run.i + 1],
                                   run.nonceHash[run.i + 1]),
                      !.i = run.i + 1]
    /\ UNCHANGED <<engine, built, lock, closeOnce, sealer, mining, res, pc,
                   stack, loc, ret, calls, teardowns, lastSet, ctor>>

\* One iteration: resultBytes[i] = hash[i] ^ nonceHash[i]; i++.  Indexing
\* nonceHash past its end panics.
hashimotoLoop ==
    /\ run.fn \in {"hashimotoLight", "hashimotoFull"}
    /\ run.i < Len(run.hash)
    /\ run' = IF run.i >= Len(run.nonceHash)
              THEN [run EXCEPT !.fn = "panicked"]
              ELSE [run EXCEPT
                      !.resultBytes[run.i + 1] =
                          Xor(run.hash[run.i + 1], run.nonceHash[run.i + 1]),
                      !.i = run.i + 1]
    /\ UNCHANGED <<engine, built, lock, closeOnce, sealer, mining, res, pc,
                   stack, loc, ret, calls, teardowns, lastSet, ctor>>

\* The loop is over: resultBytes is returned to the variant's caller.
hashimotoReturn ==
    /\ run.fn \in {"hashimotoLight", "hashimotoFull"}
    /\ run.i >= Len(run.hash)
    /\ run' = IF run.fn = "hashimotoLight"
              THEN [run EXCEPT !.fn = "idle",
                               !.light = Append(@, run.resultBytes)]
              ELSE [run EXCEPT !.fn = "idle",
                               !.full = Append(@, run.resultBytes)]
    /\ UNCHANGED <<engine, built, lock, closeOnce, sealer, mining, res, pc,
                   stack, loc, ret, calls, teardowns, lastSet, ctor>>

HashNext ==
    \/ hashimotoLight
    \/ hashimotoFull
    \/ hashimotoLoop
    \/ hashimotoReturn

HashSpec == HashInit /\ [][HashNext]_vars

\* The results returned so far by either variant.
HashResults ==
    {run.light[k] : k \in 1..Len(run.light)}
        \cup {run.full[k] : k \in 1..Len(run.full)}

\* C13: for a header digest and a nonce digest of the same length, no call
\* panics, every result of hashimotoLight and of hashimotoFull has the
\* length of the header digest, and all the results returned for the same
\* inputs, by either variant and by repeated calls, are equal byte for byte.
LightEqualsFull ==
    Len(run.hash) = Len(run.nonceHash) =>
        /\ run.fn # "panicked"
        /\ \A r \in HashResults : Len(r) = Len(run.hash)
        /\ \A r1, r2 \in HashResults :
             \A k \in 1..Len(run.hash) : r1[k] = r2[k]

\* Each variant has returned twice for a two-byte header digest and a nonce
\* digest that changes it.
LightAndFullReturned ==
    /\ run.fn = "idle"
    /\ Len(run.hash) = MaxLen
    /\ Len(run.nonceHash) = MaxLen
    /\ Len(run.light) = MaxRuns
    /\ Len(run.full) = MaxRuns
    /\ run.light[1] # run.hash

\* C14: for TestHashimoto's header digest and the all-zero digest of nonce
\* 0, every result of hashimotoLight and of hashimotoFull is the reference
\* digest 0xd3539235...a557.
HashimotoReferenceDigest ==
    (run.hash = TestHash /\ run.nonceHash = NonceZeroDigest) =>
        \A r \in HashResults : r = WantResult

\* ----------------------------------------------------------------- seedHash

epochLength == 30000

\* make([]byte, 32)
ZeroSeed == [k \in 1..32 |-> 0]

\* The legacy Keccak-256 sum of everything written to the hasher since its
\* last reset, as a term: equal sums come from equal writes only.
Keccak256(written) == <<"keccak256", written>>

\* The block numbers seedHash is called with: the first two and the last of
\* each epoch.
SeedBlocks ==
    {k * epochLength + d : k \in 0..MaxEpochs, d \in {0, 1, epochLength - 1}}

SeedInit ==
    /\ InitEngines
    /\ run = [fn |-> "idle", at |-> "none", block |-> 0, seed |-> <<>>,
              i |-> 0, rh |-> <<>>, seeds |-> {}]

\* SeedHash(block) calls seedHash(block): seed := make([]byte, 32); blocks
\* of the first epoch return at once, for the others the hasher is made and
\* the loop entered with i = 0.
SeedHash(block) ==
    /\ run.fn = "idle"
    /\ Cardinality(run.seeds) < MaxSeeds
    /\ run' = [run EXCEPT !.fn = "seedHash",
                          !.block = block,
                          !.seed = ZeroSeed,
                          !.i = 0,
                          !.rh = <<>>,
                          !.at = IF block < epochLength THEN "return"
                                                        ELSE "for"]
    /\ UNCHANGED <<engine, built, lock, closeOnce, sealer, mining, res, pc,
                   stack, loc, ret, calls, teardowns, lastSet, ctor>>

\* The loop condition i < int(block/epochLength).
seedHashFor ==
    /\ run.fn = "seedHash"
    /\ run.at = "for"
    /\ run' = [run EXCEPT !.at = IF run.i < run.block \div epochLength
                                 THEN "reset" ELSE "return"]
    /\ UNCHANGED <<engine, built, lock, closeOnce, sealer, mining, res, pc,
                   stack, loc, ret, calls, teardowns, lastSet, ctor>>

\* The hasher entered without rh.Reset(): what was written before stays.
hasherKeepsState ==
    /\ run.fn = "seedHash"
    /\ run.at = "reset"
    /\ run' = [run EXCEPT !.at = "write"]
    /\ UNCHANGED <<engine, built, lock, closeOnce, sealer, mining, res, pc,
                   stack, loc, ret, calls, teardowns, lastSet, ctor>>

\* keccak256(seed, seed), first statement: rh.Reset().
hasherReset ==
    /\ run.fn = "seedHash"
    /\ run.at = "reset"
    /\ run' = [run EXCEPT !.rh = <<>>, !.at = "write"]
    /\ UNCHANGED <<engine, built, lock, closeOnce, sealer, mining, res, pc,
                   stack, loc, ret, calls, teardowns, lastSet, ctor>>

\* rh.Write(data), data being the seed.
hasherWrite ==
    /\ run.fn = "seedHash"
    /\ run.at = "write"
    /\ run' = [run EXCEPT !.rh = Append(@, run.seed), !.at = "read"]
    /\ UNCHANGED <<engine, built, lock, closeOnce, sealer, mining, res, pc,
                   stack, loc, ret, calls, teardowns, lastSet, ctor>>

\* rh.Read(dest[:outputLen]), dest being the seed, of outputLen bytes: the
\* sum overwrites the seed; then i++.
hasherRead ==
    /\ run.fn = "seedHash"
    /\ run.at = "read"
    /\ run' = [run EXCEPT !.seed = Keccak256(run.rh), !.i = @ + 1,
                          !.at = "for"]
    /\ UNCHANGED <<engine, built, lock, closeOnce, sealer, mining, res, pc,
                   stack, loc, ret, calls, teardowns, lastSet, ctor>>

\* return seed
seedHashReturn ==
    /\ run.fn = "seedHash"
    /\ run.at = "return"
    /\ run' = [run EXCEPT !.fn = "idle", !.at = "none",
                          !.seeds = @ \cup {<<run.block, run.seed>>}]
    /\ UNCHANGED <<engine, built, lock, closeOnce, sealer, mining, res, pc,
                   stack, loc, ret, calls, teardowns, lastSet, ctor>>

SeedNext ==
    \/ \E block \in SeedBlocks : SeedHash(block)
    \/ seedHashFor
    \/ hasherReset
    \/ hasherWrite
    \/ hasherRead
    \/ seedHashReturn

SeedSpec == SeedInit /\ [][SeedNext]_vars

\* The hash function applied n times to 32 zero bytes, each application
\* taking the result of the one before as its whole input.
RECURSIVE HashTimes(_)
HashTimes(n) ==
    IF n = 0 THEN ZeroSeed ELSE Keccak256(<<HashTimes(n - 1)>>)

\* C15: seedHash returns 32 zero bytes for every block below 30000, and for
\* the others the hash function applied floor(block/30000) times starting
\* from 32 zero bytes; so two blocks of the same epoch have the same seed.
SeedByEpoch ==
    /\ \A p \in run.seeds :
         /\ p[1] < 30000 => p[2] = ZeroSeed
         /\ p[1] >= 30000 => p[2] = HashTimes(p[1] \div 30000)
    /\ \A p, q \in run.seeds :
         (p[1] \div 30000 = q[1] \div 30000) => p[2] = q[2]

\* The seeds of the first and of the last block of epoch MaxEpochs have been
\* computed.
SeedOfTwoBlocksOfAnEpoch ==
    /\ run.fn = "idle"
    /\ \E p, q \in run.seeds :
         /\ p[1] = MaxEpochs * epochLength
         /\ q[1] = p[1] + epochLength - 1
         /\ p[2] # ZeroSeed

\* C16: SetThreads(n) on an engine with no shared delegate never waits on
\* update.  Its body, once under the lock, stores n and moves on to the
\* unlock, whether a mining loop is receiving, none is (update allocated or
\* nil): a delivered ping only ends the mining loop's wait, a dropped one
\* changes nothing but the thread count; the count is n when the call
\* returns; and every such call returns.
SetThreadsNeverBlocks ==
    /\ [][\A c \in Callers :
            (/\ pc[c] = "set_body"
             /\ pc'[c] # "set_body"
             /\ engine[Self(c)].shared = Nil) =>
                /\ pc'[c] = "set_unlock"
                /\ engine' = [engine EXCEPT ![Self(c)].threads = ret[c].arg]
                /\ IF engine[Self(c)].update # Nil /\ mining[Self(c)]
                     THEN mining' = [mining EXCEPT ![Self(c)] = FALSE]
                     ELSE mining' = mining
                /\ UNCHANGED <<built, lock, closeOnce, sealer, res, stack,
                               loc, ret, calls, teardowns, lastSet>>]_vars
    /\ [][\A c \in Callers :
            (/\ pc[c] = "set_unlock"
             /\ pc'[c] = "idle"
             /\ engine[ret[c].eng].shared = Nil) =>
                engine'[ret[c].eng].threads = ret[c].arg]_vars
    /\ \A c \in Callers :
         (/\ pc[c] \in {"set_lock", "set_body", "set_unlock"}
          /\ engine[ret[c].eng].shared = Nil)
            ~> (pc[c] = "idle" /\ ret[c].op = "SetThreads")

\* SetThreads(1) has returned on an engine whose update channel is nil, and
\* SetThreads(-1) on sharedHmhash with no mining loop receiving.
SetThreadsReturnedUnpinged ==
    \E c, d \in Callers, e \in built :
        /\ Returned(c, "SetThreads", e)
        /\ engine[e].update = Nil
        /\ engine[e].shared = Nil
        /\ ret[c].arg = 1
        /\ engine[e].threads = 1
        /\ Returned(d, "SetThreads", sharedHmhash)
        /\ ret[d].arg = -1
        /\ engine[sharedHmhash].threads = -1
        /\ ~mining[sharedHmhash]

\* Caller c is between the Lock and the Unlock of a Threads or SetThreads
\* frame whose receiver is e: its innermost frame is past the Lock, or the
\* frame is the one that forwarded to the frame c is in now.
InSection(c, e) ==
    \/ pc[c] \in {"thr_read", "set_body", "set_unlock"} /\ Self(c) = e
    \/ /\ pc[c] \in {"set_lock", "set_body", "set_unlock"}
       /\ Len(stack[c]) = 2
       /\ stack[c][2] = e

\* C17: at most one caller at a time is between Lock and Unlock of Threads
\* or SetThreads on the same engine, and it holds that engine's lock, so a
\* write of threads overlaps no other write and no read; and what Threads
\* returns is the count the engine holds, which is the argument of the last
\* SetThreads to have finished storing there, or the initial 0.
ThreadsMutuallyExclusive ==
    /\ [](\A e \in Engines :
            /\ Cardinality({c \in Callers : InSection(c, e)}) <= 1
            /\ \A c \in Callers : InSection(c, e) => lock[e] = c)
    /\ [][\A e \in Engines :
            engine'[e].threads # engine[e].threads =>
                \E c \in Callers :
                    /\ InSection(c, e)
                    /\ pc[c] = "set_body"
                    /\ pc'[c] = "set_unlock"]_vars
    /\ [][\A c \in Callers :
            ThreadsReturns(c) =>
                /\ ret'[c].val = engine[Self(c)].threads
                /\ ret'[c].val =
                     IF engine[Self(c)].shared = Nil THEN lastSet[Self(c)]
                                                      ELSE 0]_vars

\* One caller is inside SetThreads' section on an engine, having stored its
\* count, while the other waits for the same lock in Threads.
ThreadsWaitsForSetThreads ==
    \E c, d \in Callers :
        /\ pc[c] = "set_unlock"
        /\ pc[d] = "thr_lock"
        /\ Self(c) = Self(d)
        /\ engine[Self(c)].threads # lastSet[Self(c)]

\* No Close has been called on sharedHmhash itself.
NoCloseOnSingleton ==
    /\ ~closeOnce[sharedHmhash].done
    /\ \A c \in Callers :
         ~(ret[c].op = "Close" /\ ret[c].eng = sharedHmhash /\ pc[c] # "idle")

\* C18: Close on a delegating engine runs on that engine alone.  Its steps
\* change no engine's fields or lock and no other engine's sealer, Once or
\* teardown count; as long as Close was not called on sharedHmhash itself,
\* the singleton's sealer is running with no exit requested, and Hashrate,
\* SetThreads and Threads called on the singleton do not panic and return.
CloseSparesSingleton ==
    /\ [](\A c \in Callers :
            (ret[c].op = "Close" /\ pc[c] \in ClosePcs) =>
                Self(c) = ret[c].eng)
    /\ [][\A c \in Callers :
            (/\ pc[c] \in ClosePcs
             /\ pc'[c] # pc[c]
             /\ Delegating(ret[c].eng)) =>
                /\ engine' = engine
                /\ lock' = lock
                /\ \A e \in Engines \ {ret[c].eng} :
                     /\ sealer'[e] = sealer[e]
                     /\ closeOnce'[e] = closeOnce[e]
                     /\ teardowns'[e] = teardowns[e]]_vars
    /\ [](NoCloseOnSingleton =>
            /\ sealer[sharedHmhash].pc \in {"loop", "reply"}
            /\ ~sealer[sharedHmhash].requestExit
            /\ ~sealer[sharedHmhash].exitCh
            /\ teardowns[sharedHmhash] = 0
            /\ \A c \in Callers :
                 ret[c].eng = sharedHmhash => pc[c] # "panicked")
    /\ \A c \in Callers :
         (/\ NoCloseOnSingleton
          /\ ret[c].eng = sharedHmhash
          /\ ret[c].op \in {"Hashrate", "SetThreads", "Threads"}
          /\ pc[c] # "idle")
            ~> (pc[c] = "idle" \/ ~NoCloseOnSingleton)

\* Close has returned on an engine built by New in ModeShared, whose own
\* sealer has exited, and after it Hashrate on sharedHmhash has returned the
\* sum with the rate of the singleton's sealer, which is still running.
ClosedDelegateSingletonServes ==
    \E c, d \in Callers, e \in built :
        /\ Delegating(e)
        /\ Returned(c, "Close", e)
        /\ sealer[e].pc = "exited"
        /\ Returned(d, "Hashrate", sharedHmhash)
        /\ ret[d].val = 2 * MaxRate
        /\ sealer[sharedHmhash].pc = "loop"
        /\ ~sealer[sharedHmhash].requestExit

\* ------------------------------------------------- lock order of delegation

\* The scenario of several delegating engines: sharedHmhash and engines
\* 1..NumDelegates, built by New in ModeShared (odd ones) and by NewShared
\* (even ones), with NumLockCallers callers making one call each and no
\* mining loop running.
LockEngines == 0..NumDelegates
LockCallers == 1..NumLockCallers

LockInit ==
    /\ engine = [e \in LockEngines |->
                   IF e = sharedHmhash THEN NewEngine(ModeNormal, Nil)
                   ELSE IF e % 2 = 1
                          THEN NewEngine(ModeShared, Ref(sharedHmhash))
                          ELSE SharedEngine]
    /\ built = LockEngines
    /\ lock = [e \in LockEngines |-> 0]
    /\ closeOnce = [e \in LockEngines |-> [done |-> FALSE, m |-> 0]]
    /\ sealer = [e \in LockEngines |->
                   IF e = sharedHmhash \/ e % 2 = 1 THEN StartedSealer
                                                    ELSE NoSealer]
    /\ mining = [e \in LockEngines |-> FALSE]
    /\ res = [c \in LockCallers |-> Nil]
    /\ pc = [c \in LockCallers |-> "idle"]
    /\ stack = [c \in LockCallers |-> <<>>]
    /\ loc = [c \in LockCallers |-> 0]
    /\ ret = [c \in LockCallers |-> NoCall]
    /\ calls = 0
    /\ teardowns = [e \in LockEngines |-> 0]
    /\ lastSet = [e \in LockEngines |-> 0]
    /\ ctor = [e \in LockEngines |->
                 IF e = sharedHmhash \/ e % 2 = 1 THEN "New" ELSE "NewShared"]
    /\ run = NoRun

\* Caller c, which has made no call yet, calls op on e.
CallOnce(c, e, op, n, first) ==
    /\ pc[c] = "idle"
    /\ ret[c].op = "none"
    /\ e \in built
    /\ pc' = [pc EXCEPT ![c] = first]
    /\ stack' = [stack EXCEPT ![c] = <<e>>]
    /\ ret' = [ret EXCEPT ![c] = [op |-> op, eng |-> e, arg |-> n, val |-> 0,
                                  exited |-> sealer[e].exitCh]]
    /\ UNCHANGED <<engine, built, lock, closeOnce, sealer, mining, res, loc,
                   calls, teardowns, lastSet, ctor, run>>

ThreadsOnce(c, e) == CallOnce(c, e, "Threads", 0, "thr_lock")

SetThreadsOnce(c, e, threads) ==
    CallOnce(c, e, "SetThreads", threads, "set_lock")

LockStep(c) ==
    \/ ThreadsLock(c)
    \/ ThreadsReturn(c)
    \/ SetThreadsLock(c)
    \/ SetThreadsBody(c)
    \/ SetThreadsUnlock(c)

LockNext ==
    \/ \E c \in LockCallers, e \in LockEngines : ThreadsOnce(c, e)
    \/ \E c \in LockCallers, e \in LockEngines, n \in -1..MaxThreads :
         SetThreadsOnce(c, e, n)
    \/ \E c \in LockCallers : LockStep(c)

LockSpec == LockInit /\ [][LockNext]_vars

\* A goroutine inside Threads or SetThreads keeps being scheduled.
FairLockSpec ==
    /\ LockSpec
    /\ \A c \in LockCallers : WF_vars(LockStep(c))

\* The locks caller c holds.
Held(c) == {e \in LockEngines : lock[e] = c}

\* C19: the singleton has no shared delegate and every other delegate is the
\* singleton, so a call is at most two frames deep; a caller that waits for
\* a lock while holding one holds a delegating engine's lock and waits for
\* the singleton's, never the reverse; and every Threads and SetThreads
\* call, on the delegating engines and on the singleton, returns.
DelegationLockOrder ==
    /\ [](/\ engine[sharedHmhash].shared = Nil
          /\ \A e \in LockEngines :
               engine[e].shared \in {Nil, Ref(sharedHmhash)}
          /\ \A c \in LockCallers :
               /\ Len(stack[c]) <= 2
               /\ Cardinality(Held(c)) <= 2
               /\ (pc[c] \in {"thr_lock", "set_lock"} /\ Held(c) # {}) =>
                    /\ Self(c) = sharedHmhash
                    /\ Held(c) = {ret[c].eng}
                    /\ engine[ret[c].eng].shared = Ref(sharedHmhash))
    /\ \A c \in LockCallers : (pc[c] # "idle") ~> (pc[c] = "idle")

\* Two callers are inside SetThreads on two different delegating engines,
\* one holding the singleton's lock and the other waiting for it, while a
\* third waits for it in a call made on the singleton directly.
DelegatesContendForSingleton ==
    \E c, d, b \in LockCallers :
        /\ Len(stack[c]) = 2 /\ pc[c] = "set_unlock"
        /\ Len(stack[d]) = 2 /\ pc[d] = "set_lock"
        /\ ret[c].eng # ret[d].eng
        /\ ret[b].eng = sharedHmhash /\ pc[b] = "thr_lock"

====
